---------------------------- MODULE Spec2Model ----------------------------
(***************************************************************************)
(* Model of PhysicsLayer (src/src/nacltoons/src/physics_layer.cc): the     *)
(* touch handlers that capture a stroke, the conversion of the stroke into *)
(* a Box2D body (CreatePhysicsBody), the bounds of the body                *)
(* (CalcBodyBounds) and the sprite built from them (CreatePhysicsSprite).  *)
(*                                                                         *)
(* Numbers.  The C++ floats are modelled as exact rationals <<n, d>> in    *)
(* lowest terms with d > 0; FLT_MAX is <<1, 0>>, above every finite value. *)
(* All touch locations are drawn from a set of pixel positions whose       *)
(* pairwise distances are whole numbers, so that sqrt, sin and cos are     *)
(* exact.                                                                  *)
(***************************************************************************)
EXTENDS Integers, Sequences, FiniteSets

\* the null pointer; node addresses are 1, 2, ...
NULL == 0

-----------------------------------------------------------------------------
(* Exact arithmetic standing for the float arithmetic of the source.       *)

RECURSIVE Gcd(_, _)
Gcd(a, b) == IF b = 0 THEN a ELSE Gcd(b, a % b)

Abs(n) == IF n < 0 THEN -n ELSE n

Norm(n, d) ==
  LET s == IF d < 0 THEN -1 ELSE 1
      g == Gcd(Abs(n), Abs(d))
  IN  IF g = 0 THEN <<0, 1>> ELSE <<(s * n) \div g, (s * d) \div g>>

R(i) == <<i, 1>>

RAdd(a, b) == Norm(a[1] * b[2] + b[1] * a[2], a[2] * b[2])
RSub(a, b) == Norm(a[1] * b[2] - b[1] * a[2], a[2] * b[2])
RMul(a, b) == Norm(a[1] * b[1], a[2] * b[2])
RDiv(a, b) == Norm(a[1] * b[2], a[2] * b[1])
RLt(a, b)  == a[1] * b[2] < b[1] * a[2]
RLe(a, b)  == a[1] * b[2] <= b[1] * a[2]

\* float -> int conversion of C++: truncation toward zero
TruncToInt(a) ==
  IF a[1] >= 0 THEN a[1] \div a[2] ELSE -((-a[1]) \div a[2])

\* sqrtf of a rational whose root is rational
ISqrt(n) == CHOOSE k \in 0..n : k * k = n
RSqrt(a) == <<ISqrt(a[1]), ISqrt(a[2])>>

FLT_MAX == <<1, 0>>

-----------------------------------------------------------------------------
(* Constants of the source.                                                *)

PTM_RATIO == 32
NO_TOUCH == -1

SCREEN_TO_WORLD(n) == RDiv(n, R(PTM_RATIO))
WORLD_TO_SCREEN(n) == RMul(n, R(PTM_RATIO))

\* CCDirector::sharedDirector()->getWinSize()
win_size == [width |-> R(64), height |-> R(48)]


-----------------------------------------------------------------------------
(* Geometry: CCPoint and b2Vec2 are pairs <<x, y>> of rationals; a b2Rot   *)
(* is the pair <<cos, sin>> of its angle; a b2Transform is [p, q].         *)

ccp(x, y) == <<x, y>>

ccpDistance(a, b) ==
  LET dx == RSub(a[1], b[1])
      dy == RSub(a[2], b[2])
  IN  RSqrt(RAdd(RMul(dx, dx), RMul(dy, dy)))

\* atan2(y, x), kept as the rotation <<cos, sin>> it stands for; atan2(0, 0) = 0
atan2(y, x) ==
  LET h == RSqrt(RAdd(RMul(x, x), RMul(y, y)))
  IN  IF h = R(0) THEN <<R(1), R(0)>> ELSE <<RDiv(x, h), RDiv(y, h)>>

\* abs(distance) of AddLineToBody: the magnitude of a float (distance is a
\* float and never negative, so width = SCREEN_TO_WORLD(distance))
abs(x) == IF RLt(x, R(0)) THEN RSub(R(0), x) ELSE x

MAX(a, b) == IF RLt(b, a) THEN a ELSE b

b2Mul(xf, v) ==
  << RAdd(RSub(RMul(xf.q[1], v[1]), RMul(xf.q[2], v[2])), xf.p[1]),
     RAdd(RAdd(RMul(xf.q[2], v[1]), RMul(xf.q[1], v[2])), xf.p[2]) >>

\* b2PolygonShape::SetAsBox(hx, hy, center, angle)
SetAsBox(hx, hy, center, angle) ==
  LET xf == [p |-> center, q |-> angle]
      nx == RSub(R(0), hx)
      ny == RSub(R(0), hy)
  IN  [type |-> "e_polygon",
       m_vertexCount |-> 4,
       m_vertices |-> << b2Mul(xf, <<nx, ny>>), b2Mul(xf, <<hx, ny>>),
                         b2Mul(xf, <<hx, hy>>), b2Mul(xf, <<nx, hy>>) >>]

b2CircleShape(p, radius) ==
  [type |-> "e_circle", m_p |-> p, m_radius |-> radius]

b2EdgeShape(v1, v2) == [type |-> "e_edge", m_vertex1 |-> v1, m_vertex2 |-> v2]

\* b2Body::CreateFixture: the new fixture becomes the head of the fixture list
CreateFixture(body, def) ==
  [body EXCEPT !.fixtures = <<def>> \o @]

b2Transform(body) == [p |-> body.position, q |-> body.q]

DEFAULT_DENSITY == <<1, 1>>
DEFAULT_FRICTION == <<1, 5>>
DEFAULT_RESTITUTION == <<1, 10>>


-----------------------------------------------------------------------------
(* Shape construction (CreatePhysicsBody and its helpers).  A body is      *)
(* [type, position, q, fixtures]; fixtures is the b2Fixture list, head     *)
(* first.  A brush is [size |-> [width, height], position].                *)

AddShapeToBody(body, shape) ==
  CreateFixture(body, [shape |-> shape,
                       density |-> DEFAULT_DENSITY,
                       friction |-> DEFAULT_FRICTION,
                       restitution |-> DEFAULT_RESTITUTION])

\* faulty variant of AddSphereToBody: the radius is left in pixels
AddSphereToBody_PixelRadius(body, location, brush_radius) ==
  AddShapeToBody(body,
    b2CircleShape(<< RSub(SCREEN_TO_WORLD(location[1]), body.position[1]),
                     RSub(SCREEN_TO_WORLD(location[2]), body.position[2]) >>,
                  brush_radius))

AddSphereToBody(body, location, brush_radius) ==
  AddShapeToBody(body,
    b2CircleShape(<< RSub(SCREEN_TO_WORLD(location[1]), body.position[1]),
                     RSub(SCREEN_TO_WORLD(location[2]), body.position[2]) >>,
                  SCREEN_TO_WORLD(brush_radius)))

\* faulty variant of AddLineToBody: the box is centred on start, not on the
\* middle of start and end
AddLineToBody_AtStart(body, start, end, brush) ==
  LET distance == ccpDistance(start, end)
      angle == atan2(RSub(start[2], end[2]), RSub(start[1], end[1]))
      posx == RSub(SCREEN_TO_WORLD(start[1]), body.position[1])
      posy == RSub(SCREEN_TO_WORLD(start[2]), body.position[2])
      width == SCREEN_TO_WORLD(abs(distance))
      height == SCREEN_TO_WORLD(brush.size.height)
  IN  AddShapeToBody(body,
        SetAsBox(RDiv(width, R(2)), RDiv(height, R(2)), <<posx, posy>>, angle))

AddLineToBody(body, start, end, brush) ==
  LET distance == ccpDistance(start, end)
      sx == start[1]
      sy == start[2]
      ex == end[1]
      ey == end[2]
      dist_x == RSub(sx, ex)
      dist_y == RSub(sy, ey)
      angle == atan2(dist_y, dist_x)
      posx == RSub(SCREEN_TO_WORLD(RDiv(RAdd(sx, ex), R(2))), body.position[1])
      posy == RSub(SCREEN_TO_WORLD(RDiv(RAdd(sy, ey), R(2))), body.position[2])
      width == SCREEN_TO_WORLD(abs(distance))
      height == SCREEN_TO_WORLD(brush.size.height)
  IN  AddShapeToBody(body,
        SetAsBox(RDiv(width, R(2)), RDiv(height, R(2)), <<posx, posy>>, angle))

\* faulty variant of min_box_length: rounded to the nearest whole number
min_box_length_Rounded(brush_radius) == TruncToInt(RAdd(brush_radius, <<1, 2>>))

\* const int min_box_length = brush_radius_;
min_box_length(brush_radius) == TruncToInt(brush_radius)

\* the test that skips a point: too close to start_point and not the last one
SkipPoint(distance, min_len, is_last) ==
  RLt(distance, R(min_len)) /\ ~is_last

\* the for loop of CreatePhysicsBody, iter at index i of points
RECURSIVE AddBoxes(_, _, _, _, _)
AddBoxes(body, points, start_point, i, brush) ==
  IF i > Len(points) THEN body
  ELSE LET end_point == points[i]
           distance == ccpDistance(start_point, end_point)
       IN  IF SkipPoint(distance, min_box_length(brush.radius), i = Len(points))
           THEN AddBoxes(body, points, start_point, i + 1, brush)
           ELSE AddBoxes(AddLineToBody(body, start_point, end_point, brush),
                         points, end_point, i + 1, brush)

\* the body that CreatePhysicsBody builds from a non-empty points_being_drawn_
CreatePhysicsBody(points, brush) ==
  LET start_point == points[1]
      def == [type |-> "b2_dynamicBody",
              position |-> << SCREEN_TO_WORLD(start_point[1]),
                              SCREEN_TO_WORLD(start_point[2]) >>,
              q |-> <<R(1), R(0)>>,
              fixtures |-> << >>]
      b1 == AddSphereToBody(def, start_point, brush.radius)
      b2 == AddSphereToBody(b1, points[Len(points)], brush.radius)
  IN  AddBoxes(b2, points, start_point, 2, brush)

-----------------------------------------------------------------------------
(* CalcBodyBounds.                                                         *)

BoundsStart ==
  [minX |-> FLT_MAX, maxX |-> R(0), minY |-> FLT_MAX, maxY |-> R(0)]

\* the four comparisons made for one point with extents lo..hi on each axis
Grow(acc, xlo, xhi, ylo, yhi) ==
  [minX |-> IF RLt(xlo, acc.minX) THEN xlo ELSE acc.minX,
   maxX |-> IF RLt(acc.maxX, xhi) THEN xhi ELSE acc.maxX,
   minY |-> IF RLt(ylo, acc.minY) THEN ylo ELSE acc.minY,
   maxY |-> IF RLt(acc.maxY, yhi) THEN yhi ELSE acc.maxY]

RECURSIVE GrowVertices(_, _, _, _)
GrowVertices(acc, xform, poly, i) ==
  IF i > poly.m_vertexCount THEN acc
  ELSE LET vertex == b2Mul(xform, poly.m_vertices[i])
       IN  GrowVertices(Grow(acc, vertex[1], vertex[1], vertex[2], vertex[2]),
                        xform, poly, i + 1)

GrowFixture(acc, xform, shape) ==
  IF shape.type = "e_circle"
  THEN LET center == b2Mul(xform, shape.m_p)
       IN  Grow(acc, RSub(center[1], shape.m_radius), RAdd(center[1], shape.m_radius),
                     RSub(center[2], shape.m_radius), RAdd(center[2], shape.m_radius))
  ELSE GrowVertices(acc, xform, shape, 1)

RECURSIVE GrowFixtures(_, _, _, _)
GrowFixtures(acc, xform, fixtures, i) ==
  IF i > Len(fixtures) THEN acc
  ELSE GrowFixtures(GrowFixture(acc, xform, fixtures[i].shape), xform, fixtures, i + 1)

CCRectMake(x, y, width, height) ==
  [origin |-> [x |-> x, y |-> y], size |-> [width |-> width, height |-> height]]

\* the end of CalcBodyBounds: the extremes acc, converted and made a CCRect
BoundsRect(acc, s) ==
  LET maxX == WORLD_TO_SCREEN(acc.maxX)
      minX == WORLD_TO_SCREEN(acc.minX)
      maxY == WORLD_TO_SCREEN(acc.maxY)
      minY == WORLD_TO_SCREEN(acc.minY)
      width == RSub(maxX, minX)
      height == RSub(maxY, minY)
      remY == RSub(s.height, maxY)
  IN  CCRectMake(minX, remY, width, height)

CalcBodyBounds(body) ==
  BoundsRect(GrowFixtures(BoundsStart, b2Transform(body), body.fixtures, 1),
             win_size)

-----------------------------------------------------------------------------
(* CreatePhysicsSprite.                                                    *)

\* sprite_rect: the bounds moved and grown by brush_radius_
SpriteRect(r, brush_radius) ==
  CCRectMake(RSub(r.origin.x, brush_radius), RSub(r.origin.y, brush_radius),
             RAdd(r.size.width, brush_radius), RAdd(r.size.height, brush_radius))

\* faulty variant of AnchorPoint: anchorY without "anchorY -= s.height"
AnchorPoint_NoFlip(body, sprite_rect) ==
  LET body_pos == ccp(WORLD_TO_SCREEN(body.position[1]),
                      WORLD_TO_SCREEN(body.position[2]))
      anchorX == RSub(body_pos[1], sprite_rect.origin.x)
      anchorY == RAdd(RAdd(body_pos[2], sprite_rect.origin.y),
                      sprite_rect.size.height)
  IN  ccp(RDiv(anchorX, sprite_rect.size.width),
          RDiv(anchorY, sprite_rect.size.height))

\* the anchor point handed to setAnchorPoint
AnchorPoint(body, sprite_rect) ==
  LET s == win_size
      body_pos == ccp(WORLD_TO_SCREEN(body.position[1]),
                      WORLD_TO_SCREEN(body.position[2]))
      anchorX == RSub(body_pos[1], sprite_rect.origin.x)
      anchorY == RSub(RAdd(RAdd(body_pos[2], sprite_rect.origin.y),
                           sprite_rect.size.height), s.height)
  IN  ccp(RDiv(anchorX, sprite_rect.size.width),
          RDiv(anchorY, sprite_rect.size.height))

\* the sprite node: body is the b2Body* (its index in the world's body list),
\* tex the image taken from the render target
\* CCPhysicsSprite::createWithTexture, setB2Body, setPTMRatio, setAnchorPoint
CCPhysicsSprite(id, body_ix, body, tex, sprite_rect) ==
  [id |-> id, kind |-> "CCPhysicsSprite", visible |-> TRUE,
   tex |-> tex, rect |-> sprite_rect, body |-> body_ix,
   ptm_ratio |-> PTM_RATIO,
   anchor |-> AnchorPoint(body, sprite_rect)]

CreatePhysicsSprite(id, body_ix, body, tex, brush_radius) ==
  CCPhysicsSprite(id, body_ix, body, tex,
                  SpriteRect(CalcBodyBounds(body), brush_radius))


-----------------------------------------------------------------------------
(* Stroke rasterisation (DrawPoint, DrawLine).                             *)

\* faulty variant of NumStamps: the loop runs while i <= int(distance + 0.5)
NumStamps_Inclusive(distance) == TruncToInt(RAdd(distance, <<1, 2>>)) + 1

\* int(distance + 0.5): the number of passes of the for loop of DrawLine
NumStamps(distance) == TruncToInt(RAdd(distance, <<1, 2>>))

\* the brush positions visited by the for loop of DrawLine, in order
DrawLineStamps(start, end) ==
  LET distance == ccpDistance(start, end)
      difx == RSub(end[1], start[1])
      dify == RSub(end[2], start[2])
  IN  [k \in 1..NumStamps(distance) |->
         LET delta == RDiv(R(k - 1), distance)
         IN  ccp(RAdd(start[1], RMul(difx, delta)),
                 RAdd(start[2], RMul(dify, delta)))]

-----------------------------------------------------------------------------
(* Bounds of the model and the inputs of the handlers.                     *)

\* touch points delivered (began and moved) over a run
MaxTouches == 3
\* frames stepped over a run
MaxSteps == 1

\* touch->getID()
TouchIds == {0, 1}

\* touch->getLocation(), in pixels; every two of them are a whole number of
\* pixels apart (3, 4, 5 or 8)
TouchLocations ==
  { ccp(R(0), R(0)), ccp(R(4), R(0)), ccp(R(8), R(0)), ccp(R(4), R(3)) }

\* brush_->getContentSize() of brush.png
BrushSizes ==
  { [width |-> R(7), height |-> R(7)], [width |-> R(8), height |-> R(6)] }

-----------------------------------------------------------------------------
(* State.                                                                  *)

VARIABLES
  current_touch_id_,    \* id of the touch being drawn, or NO_TOUCH
  render_target_,       \* id of the CCRenderTexture node, or NULL
  debug_enabled_,
  brush_,               \* [size, position] of the brush sprite
  brush_radius_,
  points_being_drawn_,  \* sequence of CCPoint
  box2d_world_,         \* [bodies, steps]
  children,             \* CCNode::m_pChildren: [alloc, nodes]; NULL when ~alloc
  log,                  \* the point counts written by CCLog
  last_stroke,          \* history: points_being_drawn_ as the last call of
                        \* CreatePhysicsBody found it (<< >> before the first)
  active_touches,       \* dispatcher: ids of the touches that are down
  claimed,              \* dispatcher: claimed touch id -> its CCTouch location
  calc_body,            \* <<body>>: argument of a stand-alone call of CalcBodyBounds
  calc_rect             \* <<rect>>: its result, << >> before the call

layer_vars == << current_touch_id_, render_target_, debug_enabled_, brush_,
                 brush_radius_, points_being_drawn_, box2d_world_, children, log,
                 last_stroke >>
calc_vars == << calc_body, calc_rect >>
vars == << layer_vars, active_touches, claimed, calc_vars >>

RECURSIVE Sum(_)
Sum(seq) == IF seq = << >> THEN 0 ELSE seq[1] + Sum(Tail(seq))

\* touch points delivered so far: those of finished strokes and of the current one
Delivered == Sum(log) + Len(points_being_drawn_)

Brush == [size |-> brush_.size, radius |-> brush_radius_]

\* the children as a sequence (empty while m_pChildren is NULL)
Nodes == children.nodes
\* m_pChildren once a child has been added or removed
Array(nodes) == [alloc |-> TRUE, nodes |-> nodes]

RECURSIVE MaxId(_)
MaxId(nodes) ==
  IF nodes = << >> THEN 0
  ELSE LET m == MaxId(Tail(nodes))
       IN  IF nodes[1].id > m THEN nodes[1].id ELSE m

\* the address of a newly created node
NewNode == MaxId(Nodes) + 1

\* CCNode::addChild, CCNode::removeChild
addChild(nodes, child) == nodes \o <<child>>
\* faulty variant of removeChild: the node stays among the children
removeChild_Kept(nodes, id) == nodes
removeChild(nodes, id) == SelectSeq(nodes, LAMBDA n : n.id # id)

\* render_target_->begin(); brush_->visit() at each position; render_target_->end()
Visit(nodes, target, stamps) ==
  [k \in DOMAIN nodes |->
     IF nodes[k].id = target
     THEN [nodes[k] EXCEPT !.stamps = @ \o stamps]
     ELSE nodes[k]]

\* render_target_->newCCImage()
newCCImage(nodes, target) ==
  LET hit == SelectSeq(nodes, LAMBDA n : n.id = target)
  IN  IF hit = << >> THEN << >> ELSE hit[1].stamps

-----------------------------------------------------------------------------
(* Construction: PhysicsLayer::PhysicsLayer, init and InitPhysics.         *)

InitPhysics ==
  LET world_width == R(TruncToInt(SCREEN_TO_WORLD(win_size.width)))
      world_height == R(TruncToInt(SCREEN_TO_WORLD(win_size.height)))
      edge(a, b) == [shape |-> b2EdgeShape(a, b), density |-> R(0)]
      ground0 == [type |-> "b2_staticBody", position |-> <<R(0), R(0)>>,
                  q |-> <<R(1), R(0)>>, fixtures |-> << >>]
      g1 == CreateFixture(ground0, edge(<<R(0), R(0)>>, <<world_width, R(0)>>))
      g2 == CreateFixture(g1, edge(<<R(0), world_height>>, <<world_width, world_height>>))
      g3 == CreateFixture(g2, edge(<<R(0), world_height>>, <<R(0), R(0)>>))
      g4 == CreateFixture(g3, edge(<<world_width, world_height>>, <<world_width, R(0)>>))
  IN  [gravity |-> <<R(0), <<-49, 5>> >>, bodies |-> <<g4>>, steps |-> 0]

Init ==
  /\ current_touch_id_ = NO_TOUCH
  /\ render_target_ = NULL
  /\ debug_enabled_ = FALSE
  /\ \E brush_size \in BrushSizes :
       /\ brush_ = [size |-> brush_size, position |-> ccp(R(0), R(0))]
       /\ brush_radius_ = MAX(RDiv(brush_size.height, R(2)), RDiv(brush_size.width, R(2)))
  /\ points_being_drawn_ = << >>
  /\ box2d_world_ = InitPhysics
  /\ children = [alloc |-> FALSE, nodes |-> << >>]
  /\ log = << >>
  /\ last_stroke = << >>
  /\ active_touches = {}
  /\ claimed = [t \in {} |-> ccp(R(0), R(0))]
  /\ calc_body = << >>
  /\ calc_rect = << >>


-----------------------------------------------------------------------------
(* The handlers of the layer.  touch is [id, location].                    *)

\* CreateRenderTarget: assert(!render_target_), create the node, add it
CreateRenderTarget(nodes, id) ==
  addChild(nodes, [id |-> id, kind |-> "CCRenderTexture", visible |-> TRUE,
                   size |-> win_size,
                   position |-> ccp(RDiv(win_size.width, R(2)),
                                    RDiv(win_size.height, R(2))),
                   stamps |-> << >>])

\* ccTouchBegan past its first test: the touch is taken; ret is the value returned
TakeTouch(touch, ret) ==
  LET target == IF render_target_ = NULL THEN NewNode ELSE render_target_
      nodes == IF render_target_ = NULL
               THEN CreateRenderTarget(Nodes, target)
               ELSE Nodes
  IN  /\ ret = TRUE
      /\ current_touch_id_' = touch.id
      /\ render_target_' = target
      /\ points_being_drawn_' = <<touch.location>>
      \* DrawPoint(location)
      /\ children' = Array(Visit(nodes, target, <<touch.location>>))
      /\ brush_' = [brush_ EXCEPT !.position = touch.location]
      /\ UNCHANGED << debug_enabled_, brush_radius_, box2d_world_, log,
                      last_stroke >>

\* faulty variant of ccTouchBegan: no test of current_touch_id_
ccTouchBegan_NoTest(touch, ret) == TakeTouch(touch, ret)

\* ccTouchBegan; ret is the value it returns
ccTouchBegan(touch, ret) ==
  IF current_touch_id_ # NO_TOUCH
  THEN /\ ret = FALSE
       /\ UNCHANGED layer_vars
  ELSE TakeTouch(touch, ret)

\* ccTouchMoved; start is touch->getPreviousLocation()
ccTouchMoved(touch, start) ==
  LET end == touch.location
      stamps == DrawLineStamps(start, end)
  IN  /\ touch.id = current_touch_id_          \* assert
      \* DrawLine(start, end)
      /\ children' = Array(Visit(Nodes, render_target_, stamps))
      /\ brush_' = IF stamps = << >> THEN brush_
                   ELSE [brush_ EXCEPT !.position = stamps[Len(stamps)]]
      /\ points_being_drawn_' = Append(points_being_drawn_, end)
      /\ UNCHANGED << current_touch_id_, render_target_, debug_enabled_,
                      brush_radius_, box2d_world_, log, last_stroke >>

\* sprite->setVisible(visible)
setVisible(sprite, visible) == [sprite EXCEPT !.visible = visible]

\* ccTouchEnded after the call of CreatePhysicsBody, which returned body
EndStroke(body) ==
  /\ log' = Append(log, Len(points_being_drawn_))
  /\ last_stroke' = points_being_drawn_
  /\ box2d_world_' = [box2d_world_ EXCEPT !.bodies = Append(@, body)]
  /\ points_being_drawn_' = << >>
  /\ children' =
       Array(removeChild(
               addChild(Nodes,
                        setVisible(CreatePhysicsSprite(NewNode,
                                                       Len(box2d_world_.bodies) + 1,
                                                       body,
                                                       newCCImage(Nodes, render_target_),
                                                       brush_radius_),
                                   ~debug_enabled_)),
               render_target_))
  /\ render_target_' = NULL
  /\ current_touch_id_' = NO_TOUCH
  /\ UNCHANGED << debug_enabled_, brush_, brush_radius_ >>

ccTouchEnded(touch) ==
  /\ touch.id = current_touch_id_          \* assert
  /\ points_being_drawn_ # << >>           \* assert
  /\ EndStroke(CreatePhysicsBody(points_being_drawn_, Brush))

\* faulty variant of SetChildrenVisible: the render target is not passed over
SetChildrenVisible_All(nodes, target, debug) ==
  [k \in DOMAIN nodes |-> [nodes[k] EXCEPT !.visible = ~debug]]

\* the loop of ToggleDebug over the children, debug being the new debug_enabled_
SetChildrenVisible(nodes, target, debug) ==
  [k \in DOMAIN nodes |->
     IF nodes[k].id = target THEN nodes[k]
     ELSE [nodes[k] EXCEPT !.visible = ~debug]]

ToggleDebug ==
  /\ debug_enabled_' = ~debug_enabled_
  /\ children' = IF ~children.alloc THEN children
                 ELSE Array(SetChildrenVisible(Nodes, render_target_, ~debug_enabled_))
  /\ UNCHANGED << current_touch_id_, render_target_, brush_, brush_radius_,
                  points_being_drawn_, box2d_world_, log, last_stroke >>
  /\ UNCHANGED << active_touches, claimed, calc_vars >>

\* UpdateWorld(dt): one Step of the world per frame
UpdateWorld ==
  /\ box2d_world_.steps < MaxSteps
  /\ box2d_world_' = [box2d_world_ EXCEPT !.steps = @ + 1]
  /\ UNCHANGED << current_touch_id_, render_target_, debug_enabled_, brush_,
                  brush_radius_, points_being_drawn_, children, log, last_stroke >>
  /\ UNCHANGED << active_touches, claimed, calc_vars >>

-----------------------------------------------------------------------------
(* The touch dispatcher: the layer is a targeted delegate that swallows    *)
(* touches, so a touch is claimed when ccTouchBegan returns true and only  *)
(* a claimed touch is passed to ccTouchMoved and ccTouchEnded.             *)

TouchBegan(id, location) ==
  /\ id \notin active_touches
  /\ Delivered < MaxTouches
  /\ active_touches' = active_touches \cup {id}
  /\ \E ret \in BOOLEAN :
       /\ ccTouchBegan([id |-> id, location |-> location], ret)
       /\ claimed' = IF ret
                     THEN [t \in DOMAIN claimed \cup {id} |->
                             IF t = id THEN location ELSE claimed[t]]
                     ELSE claimed
  /\ UNCHANGED calc_vars

TouchMoved(id, location) ==
  /\ id \in DOMAIN claimed
  /\ Delivered < MaxTouches
  /\ ccTouchMoved([id |-> id, location |-> location], claimed[id])
  /\ claimed' = [claimed EXCEPT ![id] = location]
  /\ UNCHANGED << active_touches, calc_vars >>

TouchEnded(id) ==
  /\ id \in active_touches
  /\ active_touches' = active_touches \ {id}
  /\ IF id \in DOMAIN claimed
     THEN /\ ccTouchEnded([id |-> id, location |-> claimed[id]])
          /\ claimed' = [t \in DOMAIN claimed \ {id} |-> claimed[t]]
     ELSE UNCHANGED << layer_vars, claimed >>
  /\ UNCHANGED calc_vars

Next ==
  \/ \E id \in TouchIds, location \in TouchLocations : TouchBegan(id, location)
  \/ \E id \in TouchIds, location \in TouchLocations : TouchMoved(id, location)
  \/ \E id \in TouchIds : TouchEnded(id)
  \/ ToggleDebug
  \/ UpdateWorld

Spec == Init /\ [][Next]_vars


-----------------------------------------------------------------------------
(* CalcBodyBounds on its own: any body with one fixture or more, at any    *)
(* position and at a rotation by a multiple of a right angle.              *)

\* fixtures tried per body
MaxFixtures == 2

CalcPositions ==
  { <<R(-2), R(-1)>>, <<R(0), R(0)>>, <<R(1), R(1)>> }

CalcRotations ==
  { <<R(1), R(0)>>, <<R(0), R(1)>>, <<R(-1), R(0)>>, <<R(0), R(-1)>> }

CalcShapes ==
  { b2CircleShape(<<R(0), R(0)>>, <<1, 8>>),
    b2CircleShape(<<<<1, 4>>, R(0)>>, <<1, 8>>),
    SetAsBox(<<1, 8>>, <<1, 16>>, <<<<1, 8>>, R(0)>>, <<R(1), R(0)>>) }

RECURSIVE ShapeLists(_)
ShapeLists(n) ==
  IF n = 0 THEN { << >> }
  ELSE LET shorter == ShapeLists(n - 1)
       IN  shorter \cup { Append(l, [shape |-> sh]) : l \in shorter, sh \in CalcShapes }

CalcBodies ==
  { [type |-> "b2_dynamicBody", position |-> p, q |-> q, fixtures |-> f] :
      p \in CalcPositions, q \in CalcRotations,
      f \in ShapeLists(MaxFixtures) \ { << >> } }

InitCalc ==
  /\ current_touch_id_ = NO_TOUCH
  /\ render_target_ = NULL
  /\ debug_enabled_ = FALSE
  /\ brush_ = [size |-> [width |-> R(7), height |-> R(7)], position |-> ccp(R(0), R(0))]
  /\ brush_radius_ = <<7, 2>>
  /\ points_being_drawn_ = << >>
  /\ box2d_world_ = InitPhysics
  /\ children = [alloc |-> FALSE, nodes |-> << >>]
  /\ log = << >>
  /\ last_stroke = << >>
  /\ active_touches = {}
  /\ claimed = [t \in {} |-> ccp(R(0), R(0))]
  /\ calc_body \in { <<b>> : b \in CalcBodies }
  /\ calc_rect = << >>

CallCalcBodyBounds ==
  /\ calc_rect = << >>
  /\ calc_rect' = << CalcBodyBounds(calc_body[1]) >>
  /\ UNCHANGED << layer_vars, active_touches, claimed, calc_body >>

NextCalc == CallCalcBodyBounds

SpecCalc == InitCalc /\ [][NextCalc]_vars


-----------------------------------------------------------------------------
(* What the properties below read off the state.                           *)

Bodies == box2d_world_.bodies
\* the body made from last_stroke
LastBody == Bodies[Len(Bodies)]

\* the shapes of a body in the order they were attached
Attached(body) ==
  [k \in 1..Len(body.fixtures) |-> body.fixtures[Len(body.fixtures) + 1 - k].shape]
CirclesOf(body) == SelectSeq(Attached(body), LAMBDA sh : sh.type = "e_circle")
BoxesOf(body) == SelectSeq(Attached(body), LAMBDA sh : sh.type = "e_polygon")

ToSim(x) == RDiv(x, R(32))
ToScreen(x) == RMul(x, R(32))

\* a point given relative to the body origin in simulation units, in pixels
InPixels(body, v) ==
  << ToScreen(RAdd(v[1], body.position[1])), ToScreen(RAdd(v[2], body.position[2])) >>
MidPoint(a, b) ==
  << RDiv(RAdd(a[1], b[1]), R(2)), RDiv(RAdd(a[2], b[2]), R(2)) >>
\* the middles of the two short sides of a box: where it starts and ends
BoxStart(body, box) == InPixels(body, MidPoint(box.m_vertices[2], box.m_vertices[3]))
BoxEnd(body, box) == InPixels(body, MidPoint(box.m_vertices[4], box.m_vertices[1]))
\* the segments spanned by the boxes of a body, in the order attached
Segments(body) ==
  [k \in 1..Len(BoxesOf(body)) |->
     << BoxStart(body, BoxesOf(body)[k]), BoxEnd(body, BoxesOf(body)[k]) >>]

\* squared distance of two points
Dist2(a, b) ==
  RAdd(RMul(RSub(a[1], b[1]), RSub(a[1], b[1])),
       RMul(RSub(a[2], b[2]), RSub(a[2], b[2])))
Closer(a, b, r) == RLt(Dist2(a, b), RMul(r, r))
Farther(a, b, r) == RLt(RMul(r, r), Dist2(a, b))

\* a stroke whose points follow each other by one and the same step
Straight(stroke) ==
  \A k \in 1..(Len(stroke) - 2) :
    /\ RSub(stroke[k + 1][1], stroke[k][1]) = RSub(stroke[k + 2][1], stroke[k + 1][1])
    /\ RSub(stroke[k + 1][2], stroke[k][2]) = RSub(stroke[k + 2][2], stroke[k + 1][2])

SpriteNodes == SelectSeq(Nodes, LAMBDA n : n.kind = "CCPhysicsSprite")
TargetNodes == SelectSeq(Nodes, LAMBDA n : n.kind = "CCRenderTexture")

-----------------------------------------------------------------------------
(* C1: a stroke of exactly one point gives a body with exactly two circle  *)
(* fixtures and no box; both circles sit on the body origin, which is the  *)
(* first point of the stroke in simulation units, and have radius          *)
(* toSim(brushRadius).                                                     *)
C1_OnePointStroke ==
  Len(last_stroke) = 1 =>
    /\ Len(LastBody.fixtures) = 2
    /\ BoxesOf(LastBody) = << >>
    /\ \A k \in 1..2 :
         /\ LastBody.fixtures[k].shape.type = "e_circle"
         /\ LastBody.fixtures[k].shape.m_p = <<R(0), R(0)>>
         /\ LastBody.fixtures[k].shape.m_radius = ToSim(brush_radius_)
    /\ LastBody.position = << ToSim(last_stroke[1][1]), ToSim(last_stroke[1][2]) >>

C1_Witness == Len(last_stroke) = 1 /\ Len(Bodies) >= 2

(* C2: a straight stroke of N >= 1 evenly spaced points, spaced by more    *)
(* than brushRadius, gives exactly N-1 boxes and exactly 2 circles on one  *)
(* body, and box k spans stroke point k to stroke point k+1.               *)
C2_StraightStroke ==
  ( /\ Len(last_stroke) >= 1
    /\ Straight(last_stroke)
    /\ Len(last_stroke) >= 2 => Farther(last_stroke[1], last_stroke[2], brush_radius_) )
  =>
    /\ Len(BoxesOf(LastBody)) = Len(last_stroke) - 1
    /\ Len(CirclesOf(LastBody)) = 2
    /\ Len(LastBody.fixtures) = Len(last_stroke) + 1
    /\ Len(Bodies) = Len(log) + 1
    /\ \A k \in 1..(Len(last_stroke) - 1) :
         Segments(LastBody)[k] = << last_stroke[k], last_stroke[k + 1] >>

C2_Witness ==
  /\ Len(last_stroke) = 3
  /\ Straight(last_stroke)
  /\ Farther(last_stroke[1], last_stroke[2], brush_radius_)
  /\ Len(BoxesOf(LastBody)) = 2

(* C3: no box of zero or near-zero width is ever attached: every box       *)
(* fixture made by CreatePhysicsBody is wider than a fixed positive        *)
(* epsilon (here: its two ends differ at all).                             *)
C3_NoDegenerateBox ==
  \A b \in 1..Len(Bodies) :
    \A k \in 1..Len(Segments(Bodies[b])) :
      Segments(Bodies[b])[k][1] # Segments(Bodies[b])[k][2]

(* C5: the anchor point of every sprite built at the end of a stroke lies  *)
(* in [0,1] x [0,1]; it is computed from the CalcBodyBounds rectangle      *)
(* moved by -brushRadius on x and y and grown by brushRadius in width and  *)
(* height.                                                                 *)
C5_AnchorInUnitSquare ==
  \A k \in 1..Len(SpriteNodes) :
    LET sprite == SpriteNodes[k]
        body == Bodies[sprite.body]
        bounds == CalcBodyBounds(body)
        rect == sprite.rect
    IN  /\ RLe(R(0), sprite.anchor[1]) /\ RLe(sprite.anchor[1], R(1))
        /\ RLe(R(0), sprite.anchor[2]) /\ RLe(sprite.anchor[2], R(1))
        /\ rect.origin.x = RSub(bounds.origin.x, brush_radius_)
        /\ rect.origin.y = RSub(bounds.origin.y, brush_radius_)
        /\ rect.size.width = RAdd(bounds.size.width, brush_radius_)
        /\ rect.size.height = RAdd(bounds.size.height, brush_radius_)
        /\ RMul(sprite.anchor[1], rect.size.width) =
             RSub(ToScreen(body.position[1]), rect.origin.x)
        /\ RMul(sprite.anchor[2], rect.size.height) =
             RSub(RAdd(RAdd(ToScreen(body.position[2]), rect.origin.y),
                       rect.size.height), win_size.height)

\* a sprite for a stroke with a slanted segment
C5_Witness ==
  /\ Len(SpriteNodes) >= 1
  /\ Len(last_stroke) >= 2
  /\ last_stroke[1][1] # last_stroke[2][1]
  /\ last_stroke[1][2] # last_stroke[2][2]
  /\ Len(BoxesOf(LastBody)) >= 1


-----------------------------------------------------------------------------
(* C4: CalcBodyBounds gives exactly the axis-aligned bounding box of the   *)
(* fixtures of the body, wherever they lie: the extremes are the least and *)
(* greatest of every circle's centre -/+ radius and every box's corners,   *)
(* in world coordinates; rect.x = toScreen(minX), rect.width and           *)
(* rect.height are the differences of the converted extremes and rect.y =  *)
(* viewportHeight - toScreen(maxY).                                        *)
ExtentX(body) ==
  UNION { LET sh == body.fixtures[k].shape
          IN  IF sh.type = "e_circle"
              THEN { RSub(b2Mul(b2Transform(body), sh.m_p)[1], sh.m_radius),
                     RAdd(b2Mul(b2Transform(body), sh.m_p)[1], sh.m_radius) }
              ELSE { b2Mul(b2Transform(body), sh.m_vertices[i])[1] : i \in 1..4 }
          : k \in 1..Len(body.fixtures) }
ExtentY(body) ==
  UNION { LET sh == body.fixtures[k].shape
          IN  IF sh.type = "e_circle"
              THEN { RSub(b2Mul(b2Transform(body), sh.m_p)[2], sh.m_radius),
                     RAdd(b2Mul(b2Transform(body), sh.m_p)[2], sh.m_radius) }
              ELSE { b2Mul(b2Transform(body), sh.m_vertices[i])[2] : i \in 1..4 }
          : k \in 1..Len(body.fixtures) }
Least(S) == CHOOSE m \in S : \A x \in S : RLe(m, x)
Greatest(S) == CHOOSE m \in S : \A x \in S : RLe(x, m)

BoundingBox(body) ==
  [origin |-> [x |-> ToScreen(Least(ExtentX(body))),
               y |-> RSub(win_size.height, ToScreen(Greatest(ExtentY(body))))],
   size |-> [width |-> RSub(ToScreen(Greatest(ExtentX(body))),
                            ToScreen(Least(ExtentX(body)))),
             height |-> RSub(ToScreen(Greatest(ExtentY(body))),
                             ToScreen(Least(ExtentY(body))))]]

C4_ExactBounds ==
  calc_rect # << >> => calc_rect[1] = BoundingBox(calc_body[1])

(* C6: while a gesture is in progress every further begin is refused and   *)
(* changes nothing (touch id, point sequence and raster target stay as     *)
(* they are); with no gesture in progress a begin is accepted.             *)
BeginStep ==
  active_touches # active_touches' /\ active_touches \subseteq active_touches'

C6_Step ==
  BeginStep =>
    IF current_touch_id_ # NO_TOUCH
    THEN /\ UNCHANGED << current_touch_id_, points_being_drawn_, render_target_,
                         children, claimed >>
    ELSE /\ current_touch_id_' \in active_touches' \ active_touches
         /\ current_touch_id_' \in DOMAIN claimed'
         /\ Len(points_being_drawn_') = 1
         /\ render_target_' # NULL

C6_SecondBeginRefused == [][C6_Step]_vars

\* a begin was refused during the gesture that followed a finished one
C6_Witness ==
  /\ Len(log) >= 1
  /\ current_touch_id_ # NO_TOUCH
  /\ \E t \in active_touches : t \notin DOMAIN claimed

(* C7: a raster target exists if and only if a gesture is in progress; it  *)
(* is created only by an accepted begin, when none exists, and released    *)
(* only by the end of that gesture, when one exists.                       *)
C7_State ==
  /\ (render_target_ # NULL) <=> (current_touch_id_ # NO_TOUCH)
  /\ Len(TargetNodes) = IF render_target_ # NULL THEN 1 ELSE 0
  /\ \A k \in 1..Len(TargetNodes) : TargetNodes[k].id = render_target_

C7_Step ==
  /\ (current_touch_id_ = NO_TOUCH /\ current_touch_id_' # NO_TOUCH)
       => (render_target_ = NULL /\ render_target_' # NULL)
  /\ (current_touch_id_ # NO_TOUCH /\ current_touch_id_' = NO_TOUCH)
       => (render_target_ # NULL /\ render_target_' = NULL)
  /\ render_target_' # render_target_
       => (current_touch_id_ = NO_TOUCH) # (current_touch_id_' = NO_TOUCH)

C7_TargetPerGesture == []C7_State /\ [][C7_Step]_vars

\* a second raster target, after the first was released and a frame went by
C7_Witness ==
  /\ Len(log) >= 1
  /\ render_target_ # NULL
  /\ box2d_world_.steps >= 1

(* C8: an extend(from, to) stamps the brush exactly round(distance)+1      *)
(* times, the first stamp at from and the last at to, and appends to to    *)
(* the point sequence exactly once.                                        *)
MoveStep ==
  /\ current_touch_id_ # NO_TOUCH
  /\ current_touch_id_' = current_touch_id_
  /\ Len(points_being_drawn_') = Len(points_being_drawn_) + 1

Stamped == newCCImage(Nodes, render_target_)
\* the stamps added by a step
NewStamps == SubSeq(Stamped', Len(Stamped) + 1, Len(Stamped'))
MoveFrom == claimed[current_touch_id_]
MoveTo == claimed'[current_touch_id_]
\* the distance of a move, a whole number for the touch locations tried
MoveDistance == CHOOSE d \in 0..16 : R(d * d) = Dist2(MoveFrom, MoveTo)
\* round of a whole number
Round(d) == (2 * d + 1) \div 2

C8_Step ==
  MoveStep =>
    /\ Len(NewStamps) = Round(MoveDistance) + 1
    /\ NewStamps[1] = MoveFrom
    /\ NewStamps[Len(NewStamps)] = MoveTo
    /\ points_being_drawn_' = Append(points_being_drawn_, MoveTo)

C8_StampsPerExtend == [][C8_Step]_vars

(* C8 as amended: an extend(from, to) stamps the brush exactly             *)
(* round(distance) times, at from + (to - from) * i / distance for         *)
(* i = 0 .. round(distance) - 1: the first stamp is at from and none is at *)
(* to; to is appended to the point sequence exactly once, also when the    *)
(* distance is 0 (and then nothing is stamped).                            *)
C8_AmendedStep ==
  MoveStep =>
    /\ Len(NewStamps) = Round(MoveDistance)
    /\ \A k \in 1..Len(NewStamps) :
         /\ RMul(RSub(NewStamps[k][1], MoveFrom[1]), R(MoveDistance))
              = RMul(RSub(MoveTo[1], MoveFrom[1]), R(k - 1))
         /\ RMul(RSub(NewStamps[k][2], MoveFrom[2]), R(MoveDistance))
              = RMul(RSub(MoveTo[2], MoveFrom[2]), R(k - 1))
         /\ NewStamps[k] # MoveTo
    /\ Len(NewStamps) > 0 => NewStamps[1] = MoveFrom
    /\ points_being_drawn_' = Append(points_being_drawn_, MoveTo)

C8_Amended == [][C8_AmendedStep]_vars

\* a move of 5 pixels along a slant has left its stamps
C8_Witness ==
  /\ Len(points_being_drawn_) = 2
  /\ Dist2(points_being_drawn_[1], points_being_drawn_[2]) = R(25)
  /\ Len(Stamped) = 6

(* C9: walking the stroke, a point p is skipped if and only if             *)
(* distance(segmentStart, p) < brushRadius and p is not the final point;   *)
(* every other point gives one box from segmentStart to p and becomes the  *)
(* segmentStart; for 2 points or more the boxes form a connected chain     *)
(* from the first point to the final point.                                *)
RECURSIVE Walk(_, _, _, _)
Walk(stroke, segmentStart, i, r) ==
  IF i > Len(stroke) THEN << >>
  ELSE IF Closer(segmentStart, stroke[i], r) /\ i # Len(stroke)
       THEN Walk(stroke, segmentStart, i + 1, r)
       ELSE << <<segmentStart, stroke[i]>> >> \o Walk(stroke, stroke[i], i + 1, r)

Chain(stroke, segs) ==
  Len(stroke) >= 2 =>
    /\ Len(segs) >= 1
    /\ segs[1][1] = stroke[1]
    /\ segs[Len(segs)][2] = stroke[Len(stroke)]
    /\ \A k \in 1..(Len(segs) - 1) : segs[k][2] = segs[k + 1][1]

C9_SkipBelowRadius ==
  last_stroke # << >> =>
    /\ Segments(LastBody) = Walk(last_stroke, last_stroke[1], 2, brush_radius_)
    /\ Chain(last_stroke, Segments(LastBody))

(* C9 as amended: a point p is skipped if and only if                      *)
(* distance(segmentStart, p) < brushRadius cut down to a whole number (the *)
(* int min_box_length) and p is not the final point; the rest as in C9.    *)
WholePart(r) == R(r[1] \div r[2])

C9_Amended ==
  last_stroke # << >> =>
    /\ Segments(LastBody) =
         Walk(last_stroke, last_stroke[1], 2, WholePart(brush_radius_))
    /\ Chain(last_stroke, Segments(LastBody))

\* a middle point 3 pixels from the first one was skipped
C9_Witness ==
  /\ Len(last_stroke) = 3
  /\ Dist2(last_stroke[1], last_stroke[2]) = R(9)
  /\ Len(BoxesOf(LastBody)) = 1

(* C10: every body sprite is visible if and only if debug mode is off; the *)
(* raster target in progress stays visible whatever ToggleDebug does; a    *)
(* ToggleDebug flips the visibility of every sprite and of nothing else,   *)
(* so two in a row restore it.                                             *)
C10_State ==
  /\ \A k \in 1..Len(SpriteNodes) : SpriteNodes[k].visible <=> ~debug_enabled_
  /\ \A k \in 1..Len(TargetNodes) : TargetNodes[k].visible

C10_Step ==
  debug_enabled_' # debug_enabled_ =>
    /\ Len(Nodes') = Len(Nodes)
    /\ \A k \in 1..Len(Nodes) :
         /\ Nodes'[k].id = Nodes[k].id
         /\ Nodes'[k].visible =
              IF Nodes[k].id = render_target_ THEN Nodes[k].visible
              ELSE ~Nodes[k].visible

C10_DebugVisibility == []C10_State /\ [][C10_Step]_vars

\* debug mode on, a hidden sprite and a stroke in progress
C10_Witness ==
  /\ debug_enabled_
  /\ Len(SpriteNodes) >= 1
  /\ ~SpriteNodes[1].visible
  /\ render_target_ # NULL

=============================================================================
